---- MODULE Spec2Model ----
(***************************************************************************)
(* Model of the bittrex-rs client core (src/src/lib.rs): the credential    *)
(* state of Client, the signing helpers append_login / get_headers /       *)
(* hash_uri and the unwrapping of the response envelope, into_result.      *)
(*                                                                         *)
(* Text is a sequence of one-character strings; the part of a URL before   *)
(* its query (scheme, host, path) is kept as one opaque element at the     *)
(* head of the sequence.  HMAC-SHA512 and its 64-byte output are an        *)
(* uninterpreted term [mac, key, input]: the properties below depend on    *)
(* which key and which input are fed to it, never on the digest's bits.    *)
(***************************************************************************)
EXTENDS Integers, Sequences, FiniteSets, TLC

\* ------------------------------------------------------------------ bounds
\* Number of clock advances (seconds) explored after the start time.
MaxTicks == 1

\* ------------------------------------------------------------ Option, Result
None == <<>>
Some(v) == <<v>>
IsSome(o) == o # <<>>
Unwrap(o) == o[1]

Ok(v) == [tag |-> "Ok", val |-> v]
Err(kind, msg) == [tag |-> "Err", val |-> [kind |-> kind, msg |-> msg]]
\* A panic unwinds the calling thread: no value is returned.
Panic(msg) == [tag |-> "Panic", val |-> msg]
IsOk(r) == r.tag = "Ok"
IsErr(r) == r.tag = "Err"
IsPanic(r) == r.tag = "Panic"

\* ------------------------------------------------------------------ inputs
\* (api_key, api_secret) pairs handed to login; "&", "=", " " and "%" are not
\* literal in a query string and must be escaped by append_pair.  The two
\* pairs differ in both fields, so a mixed pair is told from either.
Credentials == { << <<"k", "1">>, <<>> >>, << <<"a", "&", "=", " ">>, <<"s", "%">> >> }

\* Start values of the wall clock (Unix seconds, i64): the second before the
\* epoch, and a present-day value just before a decimal carry.
StartTimes == { -1, 1700000009 }

\* ------------------------------------------------------------------- Url
\* reqwest::Url keeps its serialization and the index of the "?" that starts
\* the query (None when the URL has no query).
MkUrl(head, query) ==
    [ serialization |-> <<head>> \o (IF IsSome(query) THEN <<"?">> \o Unwrap(query) ELSE <<>>),
      query_start |-> IF IsSome(query) THEN Some(2) ELSE None ]

\* API_URL joined with an endpoint path, as the endpoint methods build it.
BaseUrls ==
    { MkUrl("https://bittrex.com/api/v1.1/account/getbalances", None),
      MkUrl("https://bittrex.com/api/v1.1/account/getbalance", Some(<<>>)),
      MkUrl("https://bittrex.com/api/v1.1/market/getopenorders",
            Some(<<"m", "=", "b", "&", "x", "=", "%", "2", "6">>)) }

as_str(url) == url.serialization

\* ------------------------------------------------- form_urlencoded (writing)
HexUpper == <<"0", "1", "2", "3", "4", "5", "6", "7", "8", "9", "A", "B", "C", "D", "E", "F">>
DigitChar == <<"0", "1", "2", "3", "4", "5", "6", "7", "8", "9">>

Unreserved ==
    { "a", "b", "k", "m", "s", "x", "y", "p", "i", "e", "n", "o", "c",
      "0", "1", "2", "3", "4", "5", "6", "7", "8", "9", "*", "-", ".", "_" }

AsciiCode(c) ==
    CASE c = " " -> 32
      [] c = "#" -> 35
      [] c = "%" -> 37
      [] c = "&" -> 38
      [] c = "+" -> 43
      [] c = "=" -> 61
      [] c = "?" -> 63

\* byte_serialize: unreserved bytes stay, space becomes "+", the rest %XX.
byte_serialize_char(c) ==
    IF c \in Unreserved THEN <<c>>
    ELSE IF c = " " THEN <<"+">>
    ELSE <<"%", HexUpper[(AsciiCode(c) \div 16) + 1], HexUpper[(AsciiCode(c) % 16) + 1]>>

RECURSIVE byte_serialize(_)
byte_serialize(s) ==
    IF s = <<>> THEN <<>>
    ELSE byte_serialize_char(Head(s)) \o byte_serialize(Tail(s))

\* Url::query_pairs_mut: a URL without a query gets an empty one ("?").
query_pairs_mut(url) ==
    IF IsSome(url.query_start) THEN url
    ELSE [ serialization |-> url.serialization \o <<"?">>,
           query_start |-> Some(Len(url.serialization) + 1) ]

\* Serializer::append_pair: "&" unless the query is still empty, then
\* name=value, both escaped.
append_pair(url, name, value) ==
    LET start == Unwrap(url.query_start)
        sep   == IF Len(url.serialization) > start THEN <<"&">> ELSE <<>>
    IN  [ url EXCEPT !.serialization =
            @ \o sep \o byte_serialize(name) \o <<"=">> \o byte_serialize(value) ]

\* ---------------------------------------------------------- format!("{}")
RECURSIVE Digits(_)
Digits(n) ==
    IF n < 10 THEN <<DigitChar[n + 1]>>
    ELSE Digits(n \div 10) \o <<DigitChar[(n % 10) + 1]>>

\* Display of an i64: optional "-" and the decimal digits.
FormatI64(n) == IF n < 0 THEN <<"-">> \o Digits(-n) ELSE Digits(n)

\* ------------------------------------------------------------ HMAC and hex
\* Hmac::<Sha512>::new accepts a key of any length; input + result give the
\* MAC of the bytes fed to it.
HmacNew(key) == Ok([mac |-> "HMAC-SHA512", key |-> key])
HmacResult(hmac, input) == [mac |-> hmac.mac, key |-> hmac.key, input |-> input]
\* ToHex::write_hex into a String: lowercase digits, cannot fail.
write_hex(code) == Ok([enc |-> "hex-lower", bytes |-> code])

\* ------------------------------------------------------------------ Client
\* The reqwest::Client handle carries no state the core reads.
new_with_defaults == [api_key |-> Some(<<"k", "1">>), api_secret |-> Some(<<>>)]

new == [api_key |-> None, api_secret |-> None]

login_once(self, key, secret) ==
    IF IsSome(self.api_key) THEN self
    ELSE [api_key |-> Some(key), api_secret |-> Some(secret)]

login_key_only(self, key, secret) == [self EXCEPT !.api_key = Some(key)]

login(self, key, secret) == [api_key |-> Some(key), api_secret |-> Some(secret)]

\* append_login that leaves the URL alone when there is no key.
append_login_lenient(self, now, url) ==
    IF ~IsSome(self.api_key) THEN Ok(url)
    ELSE Ok(append_pair(append_pair(query_pairs_mut(url), <<"a", "p", "i", "k", "e", "y">>,
                                    Unwrap(self.api_key)),
                        <<"n", "o", "n", "c", "e">>, FormatI64(now)))

\* append_login with the nonce in minutes instead of seconds.
append_login_minutes(self, now, url) ==
    IF ~IsSome(self.api_key) THEN Panic("called Option::unwrap() on a None value")
    ELSE Ok(append_pair(append_pair(query_pairs_mut(url), <<"a", "p", "i", "k", "e", "y">>,
                                    Unwrap(self.api_key)),
                        <<"n", "o", "n", "c", "e">>, FormatI64(now \div 60)))

\* append_login: unwrap of the key (panics on None), the clock read, the two
\* pairs appended in order.  The new value of the &mut Url is returned.
append_login(self, now, url) ==
    IF ~IsSome(self.api_key) THEN Panic("called Option::unwrap() on a None value")
    ELSE Ok(append_pair(append_pair(query_pairs_mut(url), <<"a", "p", "i", "k", "e", "y">>,
                                    Unwrap(self.api_key)),
                        <<"n", "o", "n", "c", "e">>, FormatI64(now)))

\* hash_uri keyed with the API key instead of the secret.
hash_uri_with_key(self, url) ==
    IF ~IsSome(self.api_secret) THEN Panic("the client was not logged in")
    ELSE write_hex(HmacResult(HmacNew(Unwrap(self.api_key)).val, as_str(url)))

\* hash_uri: expect of the secret (panics on None), HMAC over url.as_str(),
\* hex of the MAC.
hash_uri(self, url) ==
    IF ~IsSome(self.api_secret) THEN Panic("the client was not logged in")
    ELSE LET hmac == HmacNew(Unwrap(self.api_secret))
         IN  IF ~IsOk(hmac) THEN Err("Msg", "invalid key length")
             ELSE write_hex(HmacResult(hmac.val, as_str(url)))

\* get_headers: the hash under the raw header "apisign"; hash? hands an
\* Err on, a panic of hash_uri unwinds through.
get_headers(self, url) ==
    LET hash == hash_uri(self, url)
    IN  IF IsOk(hash) THEN Ok({ <<"apisign", hash.val>> }) ELSE hash

\* -------------------------------------------------------------- ApiResult
Messages == { "", "INVALID_MARKET" }
Payloads == { "r1" }
Envelopes ==
    [ success : BOOLEAN, message : Messages, result : {None} \cup { Some(r) : r \in Payloads } ]

\* into_result that trusts a present result whatever success says.
into_result_result_first(self) ==
    IF IsSome(self.result) THEN Ok(Unwrap(self.result))
    ELSE IF self.success THEN Err("Api", "invalid result in success response")
    ELSE Err("Result", self.message)

\* into_result that reports a missing result with the server's message.
into_result_missing_as_result(self) ==
    IF self.success /\ IsSome(self.result) THEN Ok(Unwrap(self.result))
    ELSE Err("Result", self.message)

\* into_result that returns the message where the result belongs.
into_result_message(self) ==
    IF self.success
    THEN IF IsSome(self.result) THEN Ok(self.message)
         ELSE Err("Api", "invalid result in success response")
    ELSE Err("Result", self.message)

into_result(self) ==
    IF self.success
    THEN IF IsSome(self.result) THEN Ok(Unwrap(self.result))
         ELSE Err("Api", "invalid result in success response")
    ELSE Err("Result", self.message)

\* ------------------------------------------------------------------- state
VARIABLES
    client,   \* the Client: api_key and api_secret
    clock,    \* the wall clock, Unix seconds (Utc::now().timestamp())
    ticks,    \* seconds elapsed since the start of the run
    halted,   \* a panic has ended the run
    last,     \* the most recent call: operation, argument, stage reached, outcome
    cur,      \* the latest URL augmented by append_login, None before the first
    prev,     \* the augmented URL before it
    logged    \* the arguments of the most recent login, None before the first

vars == <<client, clock, ticks, halted, last, cur, prev, logged>>

\* An entry of the history: the URL handed to append_login, the URL it left,
\* the clock value it read and the credentials of the client.
Augmented(base, url) == [base |-> base, url |-> url, now |-> clock, self |-> client]

Call(op, arg, stage, out) == [op |-> op, arg |-> arg, stage |-> stage, out |-> out]

Init ==
    /\ client = new
    /\ clock \in StartTimes
    /\ ticks = 0
    /\ halted = FALSE
    /\ last = Call("new", None, "new", Ok(new))
    /\ cur = None
    /\ prev = None
    /\ logged = None

\* The wall clock advances by whole seconds between calls; several calls may
\* fall into one second.  The clock is taken to be monotone (the assumption
\* the design states for the nonce): a clock set back by the operator or by
\* NTP is outside this model, and nothing in append_login guards against it.
Tick ==
    /\ ~halted
    /\ ticks < MaxTicks
    /\ clock' = clock + 1
    /\ ticks' = ticks + 1
    /\ UNCHANGED <<client, halted, last, cur, prev, logged>>

Login(key, secret) ==
    /\ ~halted
    /\ client' = login(client, key, secret)
    /\ logged' = Some(<<key, secret>>)
    /\ last' = Call("login", <<key, secret>>, "login", Ok("unit"))
    /\ UNCHANGED <<clock, ticks, halted, cur, prev>>

\* A call of one helper on its own, as code inside the crate may make it.
AppendLogin(url) ==
    /\ ~halted
    /\ LET r == append_login(client, clock, url)
       IN  /\ last' = Call("append_login", url, "append_login", r)
           /\ halted' = IsPanic(r)
           /\ cur' = IF IsOk(r) THEN Some(Augmented(url, r.val)) ELSE cur
           /\ prev' = IF IsOk(r) THEN cur ELSE prev
    /\ UNCHANGED <<client, clock, ticks, logged>>

GetHeaders(url) ==
    /\ ~halted
    /\ LET r == get_headers(client, url)
       IN  /\ last' = Call("get_headers", url, "get_headers", r)
           /\ halted' = IsPanic(r)
    /\ UNCHANGED <<client, clock, ticks, cur, prev, logged>>

HashUri(url) ==
    /\ ~halted
    /\ LET r == hash_uri(client, url)
       IN  /\ last' = Call("hash_uri", url, "hash_uri", r)
           /\ halted' = IsPanic(r)
    /\ UNCHANGED <<client, clock, ticks, cur, prev, logged>>

\* The request-building step of a private endpoint method: the base URL gets
\* the login parameters, then the headers are computed for the result.  It
\* holds &self throughout, so no login can fall between the two calls.
PrivateRequest(url) ==
    /\ ~halted
    /\ LET a == append_login(client, clock, url)
           h == get_headers(client, a.val)
       IN  IF ~IsOk(a)
           THEN /\ last' = Call("private_request", url, "append_login", a)
                /\ halted' = IsPanic(a)
                /\ UNCHANGED <<cur, prev>>
           ELSE /\ cur' = Some(Augmented(url, a.val))
                /\ prev' = cur
                /\ IF ~IsOk(h)
                   THEN /\ last' = Call("private_request", url, "get_headers", h)
                        /\ halted' = IsPanic(h)
                   ELSE /\ last' = Call("private_request", url, "sent",
                                        Ok([url |-> a.val, headers |-> h.val]))
                        /\ halted' = FALSE
    /\ UNCHANGED <<client, clock, ticks, logged>>

\* A decoded response envelope is unwrapped.
IntoResult(envelope) ==
    /\ ~halted
    /\ last' = Call("into_result", envelope, "into_result", into_result(envelope))
    /\ UNCHANGED <<client, clock, ticks, halted, cur, prev, logged>>

Next ==
    \/ Tick
    \/ \E c \in Credentials : Login(c[1], c[2])
    \/ \E url \in BaseUrls : AppendLogin(url)
    \/ \E url \in BaseUrls : GetHeaders(url)
    \/ \E url \in BaseUrls : HashUri(url)
    \/ \E url \in BaseUrls : PrivateRequest(url)
    \/ \E envelope \in Envelopes : IntoResult(envelope)

Spec == Init /\ [][Next]_vars

\* ------------------------------------------------- reading a signed request
\* What the server reads back from a request: the query string split into
\* name/value pairs and unescaped (application/x-www-form-urlencoded), and
\* the number a decimal string denotes.
HexDigits == <<"0", "1", "2", "3", "4", "5", "6", "7", "8", "9", "A", "B", "C", "D", "E", "F">>
Escaped == { " ", "#", "%", "&", "+", "=", "?" }

HexValue(c) == (CHOOSE i \in 1..16 : HexDigits[i] = c) - 1
IsHex(c) == \E i \in 1..16 : HexDigits[i] = c
CharOfCode(n) == CHOOSE c \in Escaped : AsciiCode(c) = n

RECURSIVE Unescape(_)
Unescape(s) ==
    IF s = <<>> THEN <<>>
    ELSE IF Head(s) = "+" THEN <<" ">> \o Unescape(Tail(s))
    ELSE IF Head(s) = "%" /\ Len(s) >= 3 /\ IsHex(s[2]) /\ IsHex(s[3])
         THEN <<CharOfCode(16 * HexValue(s[2]) + HexValue(s[3]))>> \o Unescape(SubSeq(s, 4, Len(s)))
    ELSE <<Head(s)>> \o Unescape(Tail(s))

HasChar(s, c) == \E i \in 1..Len(s) : s[i] = c
FirstIndex(s, c) == CHOOSE i \in 1..Len(s) : s[i] = c /\ \A j \in 1..(i - 1) : s[j] # c

RECURSIVE SplitOn(_, _)
SplitOn(s, c) ==
    IF ~HasChar(s, c) THEN <<s>>
    ELSE <<SubSeq(s, 1, FirstIndex(s, c) - 1)>>
            \o SplitOn(SubSeq(s, FirstIndex(s, c) + 1, Len(s)), c)

PairOf(piece) ==
    IF HasChar(piece, "=")
    THEN << Unescape(SubSeq(piece, 1, FirstIndex(piece, "=") - 1)),
            Unescape(SubSeq(piece, FirstIndex(piece, "=") + 1, Len(piece))) >>
    ELSE << Unescape(piece), <<>> >>

QueryOf(url) ==
    IF IsSome(url.query_start)
    THEN SubSeq(url.serialization, Unwrap(url.query_start) + 1, Len(url.serialization))
    ELSE <<>>

\* The query parameters of a URL, in order; empty pieces are skipped.
QueryPairs(url) ==
    LET pieces == SelectSeq(SplitOn(QueryOf(url), "&"), LAMBDA piece : piece # <<>>)
    IN  [ i \in 1..Len(pieces) |-> PairOf(pieces[i]) ]

\* The values of the parameters called name, in order.
ParamValues(url, name) ==
    LET named == SelectSeq(QueryPairs(url), LAMBDA pair : pair[1] = name)
    IN  [ i \in 1..Len(named) |-> named[i][2] ]

DigitValue(c) == (CHOOSE i \in 1..10 : HexDigits[i] = c) - 1
IsDigit(c) == \E i \in 1..10 : HexDigits[i] = c

RECURSIVE NaturalValue(_)
NaturalValue(s) ==
    IF s = <<>> THEN 0
    ELSE 10 * NaturalValue(SubSeq(s, 1, Len(s) - 1)) + DigitValue(s[Len(s)])

\* A canonical decimal integer: digits only, no leading zero, "-" only
\* before a non-zero number.
IsDecimal(s) ==
    LET body == IF s # <<>> /\ Head(s) = "-" THEN Tail(s) ELSE s
    IN  /\ body # <<>>
        /\ \A i \in 1..Len(body) : IsDigit(body[i])
        /\ (Len(body) > 1 => body[1] # "0")
        /\ (body # s => body # <<"0">>)

DecimalValue(s) ==
    IF Head(s) = "-" THEN 0 - NaturalValue(Tail(s)) ELSE NaturalValue(s)

APIKEY == <<"a", "p", "i", "k", "e", "y">>
NONCE == <<"n", "o", "n", "c", "e">>

\* The nonce parameter of a signed URL is one canonical decimal equal to t.
NonceIs(url, t) ==
    /\ Len(ParamValues(url, NONCE)) = 1
    /\ IsDecimal(ParamValues(url, NONCE)[1])
    /\ DecimalValue(ParamValues(url, NONCE)[1]) = t

Anonymous == client.api_key = None /\ client.api_secret = None
Authenticated == IsSome(client.api_key) /\ IsSome(client.api_secret)

SigningOps == { "append_login", "get_headers", "hash_uri" }
Unwrapped == last.op = "into_result"
Signed == last.op = "private_request" /\ IsOk(last.out)

\* ------------------------------------------------------------------ claims

\* C1: Login state gating.  While login has not been called, every call of
\* append_login, get_headers or hash_uri ends in a panic (no Ok and no Err
\* value, the run is over, no augmented URL was ever produced); once
\* login(K, S) has been called the call returns Ok, the URL append_login built
\* has exactly one apikey parameter, equal to K, and the headers hold apisign.
C1_LoginGating ==
    last.op \in SigningOps =>
        IF logged = None
        THEN /\ IsPanic(last.out)
             /\ ~IsErr(last.out) /\ ~IsOk(last.out)
             /\ halted
             /\ cur = None
        ELSE /\ IsOk(last.out)
             /\ ~halted
             /\ (last.op = "append_login" =>
                    ParamValues(last.out.val, APIKEY) = <<Unwrap(logged)[1]>>)
             /\ (last.op = "get_headers" =>
                    \E h \in last.out.val : h[1] = "apisign")

C1_Witness ==
    /\ logged = None
    /\ last.op = "get_headers"
    /\ IsPanic(last.out)
    /\ halted

\* C2: for an envelope with success = false, into_result returns the
\* Result-kind error whose content is the envelope's message, whether or not
\* a result is present.
C2_FailureCarriesMessage ==
    (Unwrapped /\ ~last.arg.success) =>
        /\ last.out.tag = "Err"
        /\ last.out.val.kind = "Result"
        /\ last.out.val.msg = last.arg.message

C2_Witness ==
    /\ Unwrapped
    /\ ~last.arg.success
    /\ IsSome(last.arg.result)
    /\ last.arg.message = "INVALID_MARKET"
    /\ IsErr(last.out)

\* C3: for an envelope with success = true and no result, into_result returns
\* the Api-kind error with the fixed text "invalid result in success
\* response", whatever the message, and never a success.
C3_MalformedSuccessRejected ==
    (Unwrapped /\ last.arg.success /\ last.arg.result = None) =>
        /\ last.out.tag = "Err"
        /\ last.out.val.kind = "Api"
        /\ last.out.val.msg = "invalid result in success response"

C3_Witness ==
    /\ Unwrapped
    /\ last.arg.success
    /\ last.arg.result = None
    /\ last.arg.message = "INVALID_MARKET"
    /\ last.out.tag = "Err"

\* C4: for an envelope with success = true and a result r, into_result returns
\* Ok(r), whatever the message; it returns Ok in no other case.
C4_EnvelopeRoundTrip ==
    Unwrapped =>
        /\ (last.arg.success /\ IsSome(last.arg.result)) =>
                (last.out.tag = "Ok" /\ last.out.val = last.arg.result[1])
        /\ last.out.tag = "Ok" => (last.arg.success /\ IsSome(last.arg.result))

C4_Witness ==
    /\ Unwrapped
    /\ last.arg.success
    /\ IsSome(last.arg.result)
    /\ last.arg.message = "INVALID_MARKET"
    /\ last.out.tag = "Ok"

\* C5: the Client is either anonymous (no key, no secret) or authenticated
\* (both); new() yields an anonymous client; a step from anonymous to
\* authenticated is a login; no step leaves authenticated.
C5_TwoStates ==
    /\ Anonymous
    /\ [](Anonymous \/ Authenticated)
    /\ [][ /\ (Anonymous /\ Authenticated') => last'.op = "login"
           /\ Authenticated => Authenticated' ]_vars

C5_Witness ==
    /\ Authenticated
    /\ last.op = "login"
    /\ prev # None

\* C6: after any logins the stored pair is the pair of the most recent login;
\* login(K, S) on top of login(K, S) changes nothing; a request signed
\* afterwards carries the latest key and is signed with the latest secret.
C6_LoginOverwrites ==
    /\ logged # None =>
            /\ client.api_key = Some(Unwrap(logged)[1])
            /\ client.api_secret = Some(Unwrap(logged)[2])
    /\ \A c \in Credentials :
            login(login(client, c[1], c[2]), c[1], c[2]) = login(client, c[1], c[2])
    /\ (last.op = "append_login" /\ IsOk(last.out)) =>
            ParamValues(last.out.val, APIKEY) = <<Unwrap(logged)[1]>>
    /\ (last.op = "hash_uri" /\ IsOk(last.out)) =>
            last.out.val.bytes.key = Unwrap(logged)[2]
    /\ (last.op = "get_headers" /\ IsOk(last.out)) =>
            \A h \in last.out.val : h[2].bytes.key = Unwrap(logged)[2]
    /\ Signed =>
            /\ ParamValues(last.out.val.url, APIKEY) = <<Unwrap(logged)[1]>>
            /\ \A h \in last.out.val.headers : h[2].bytes.key = Unwrap(logged)[2]

C6_Witness ==
    /\ Signed
    /\ prev # None
    /\ Unwrap(prev).self.api_key # client.api_key
    /\ Unwrap(prev).self.api_secret # client.api_secret

C8_NonceUnique ==
    (cur # None /\ prev # None) =>
        ParamValues(Unwrap(prev).url, NONCE) # ParamValues(Unwrap(cur).url, NONCE)

\* C9: signing base URL U at clock value t with credentials (K, S) gives a URL
\* that extends U, whose parameters are those of U in order, then apikey = K,
\* then nonce = t; the only header is apisign, the lowercase-hex HMAC-SHA512
\* keyed with S of that whole augmented URL (which differs from U), so the
\* signature is a function of the URL string and the secret alone.
C9_SignedRequest ==
    Signed =>
        LET U == last.arg
            A == last.out.val.url
            P == QueryPairs(A)
            n == Len(QueryPairs(U))
        IN  /\ Authenticated
            /\ SubSeq(as_str(A), 1, Len(as_str(U))) = as_str(U)
            /\ Len(P) = n + 2
            /\ SubSeq(P, 1, n) = QueryPairs(U)
            /\ P[n + 1] = <<APIKEY, Unwrap(client.api_key)>>
            /\ P[n + 2][1] = NONCE
            /\ NonceIs(A, Unwrap(cur).now)
            /\ Unwrap(cur).url = A /\ Unwrap(cur).base = U
            /\ as_str(A) # as_str(U)
            /\ last.out.val.headers =
                  { << "apisign",
                       [ enc |-> "hex-lower",
                         bytes |-> [ mac |-> "HMAC-SHA512",
                                     key |-> Unwrap(client.api_secret),
                                     input |-> as_str(A) ] ] >> }

C9_Witness ==
    /\ Signed
    /\ Len(QueryPairs(last.arg)) = 2
    /\ Unwrap(client.api_key) = <<"a", "&", "=", " ">>
    /\ Unwrap(cur).now = 1700000010

\* C10: api_key and api_secret are both absent or both present, so
\* append_login (which looks at the key) and hash_uri (which looks at the
\* secret) panic in the same states: whenever append_login succeeds, signing
\* the URL it built succeeds, and whenever signing succeeds so does
\* append_login.
C10_CredentialPair ==
    /\ IsSome(client.api_key) <=> IsSome(client.api_secret)
    /\ \A url \in BaseUrls :
            IsPanic(append_login(client, clock, url)) <=> IsPanic(hash_uri(client, url))
    /\ \A url \in BaseUrls :
            IsOk(append_login(client, clock, url)) =>
                IsOk(get_headers(client, append_login(client, clock, url).val))
    /\ \A url \in BaseUrls :
            IsOk(get_headers(client, url)) => IsOk(append_login(client, clock, url))
    /\ (last.op = "append_login" /\ IsOk(last.out)) => IsOk(hash_uri(client, last.out.val))

C10_Witness ==
    /\ last.op = "hash_uri"
    /\ IsOk(last.out)
    /\ IsSome(client.api_key)

====
